---- MODULE Spec2Model ----
(***************************************************************************)
(* The task manager's server (src/client/src/patterns/strategy.ts): the    *)
(* tasks table, the TaskService on top of it, its observers, and the four  *)
(* /api/tasks routes.  Express hands a parsed request to its route, and    *)
(* each route handler is one atomic action: Node runs a synchronous        *)
(* handler to completion before it looks at the next request.              *)
(***************************************************************************)
EXTENDS Integers, Sequences, FiniteSets, TLC

VARIABLES tasks, seq, now, observers, req, resp, notified, issued, deleted,
          mutations, received

vars == <<tasks, seq, now, observers, req, resp, notified, issued, deleted,
          mutations, received>>

\* The record of a run: the mutations the store has applied, in order, and
\* the events each observer has been handed, in order.
hist == <<mutations, received>>

(* ---------------------------- bounds ----------------------------------- *)

\* The largest rowid the store hands out before the model stops creating.
MaxId == 2
\* The largest value of the one-second clock behind CURRENT_TIMESTAMP.
MaxClock == 1
\* The number of mutations after which a recorded run takes no more requests.
MaxLog == 6

(* ------------------------ JavaScript / SQL values ---------------------- *)

\* A JSON body field is absent (undefined), null, or a string.
Undefined == [t |-> "undefined", v |-> ""]
Null == [t |-> "null", v |-> ""]
Str(s) == [t |-> "string", v |-> s]

\* JavaScript truthiness of such a value: undefined, null and '' are falsy.
\* (TruthyUnlessUndefined: a test for undefined alone in place of !x.)
TruthyUnlessUndefined(x) == x # Undefined
Truthy(x) == x.t = "string" /\ x.v # ""

\* A destructuring default applies to undefined only (not to null).
\* (DefaultDropped: the destructuring without its defaults.)
DefaultDropped(x, d) == x
Default(x, d) == IF x = Undefined THEN Str(d) ELSE x

\* `x || ''`
OrEmpty(x) == IF Truthy(x) THEN x ELSE Str("")

\* better-sqlite3 binds undefined and null as SQL NULL, a string as TEXT.
Bind(x) == IF x = Undefined THEN Null ELSE x

\* SQL COALESCE(x, y): the first argument that is not NULL.
\* (COALESCENeverKeeps: SET col = ? without the COALESCE.)
COALESCENeverKeeps(x, y) == x
COALESCE(x, y) == IF x # Null THEN x ELSE y

\* The keys of TaskStatusFactory.statuses, and the priorities of the client form.
Statuses == {"pending", "in-progress", "completed"}
Priorities == {"low", "medium", "high"}

(* --------------------------- request inputs ---------------------------- *)

TitleInputs == {Undefined, Null, Str(""), Str("A")}
DescriptionInputs == {Undefined, Str("d")}
StatusInputs == {Undefined, Null, Str("completed")}
PriorityInputs == {Undefined, Str("urgent")}

Bodies == [title : TitleInputs, description : DescriptionInputs,
           status : StatusInputs, priority : PriorityInputs]

EmptyBody == [title |-> Undefined, description |-> Undefined,
              status |-> Undefined, priority |-> Undefined]

\* The :id route parameter, after parseInt.
IdParams == 1..MaxId

\* The request a handler is given: method, :id (0 where the route has none) and
\* the body express.json() parsed.  NoRequest: no request is being handled.
Request(method, id, body) == [method |-> method, id |-> id, body |-> body]
NoRequest == Request("none", 0, EmptyBody)

Requests ==
    {Request("GET", 0, EmptyBody)}
    \cup {Request("POST", 0, b) : b \in Bodies}
    \cup {Request("PUT", id, b) : id \in IdParams, b \in Bodies}
    \cup {Request("DELETE", id, EmptyBody) : id \in IdParams}

(* ------------------------------ the store ------------------------------ *)

RowIds(tbl) == {r.id : r \in tbl}

MaxOf(S) == IF S = {} THEN 0 ELSE CHOOSE m \in S : \A x \in S : x <= m

\* INTEGER PRIMARY KEY AUTOINCREMENT: one more than the largest rowid the
\* table has ever held (sqlite_sequence), never a rowid used before.
\* (NextRowidNoAutoincrement: the column without AUTOINCREMENT, which takes
\* one more than the largest rowid now in the table.)
NextRowidNoAutoincrement(tbl, sq) == MaxOf(RowIds(tbl)) + 1
NextRowid(tbl, sq) == MaxOf(RowIds(tbl) \cup {sq}) + 1

\* SELECT * FROM tasks WHERE id = ?  (stmt.get: the first row, or none)
GetTaskById(tbl, id) ==
    LET hit == {r \in tbl : r.id = id}
    IN  IF hit = {} THEN <<>> ELSE <<CHOOSE r \in hit : TRUE>>

\* INSERT INTO tasks (title, description, status, priority) VALUES (?, ?, ?, ?)
\* with created_at and updated_at left to DEFAULT CURRENT_TIMESTAMP.
InsertRow(tbl, sq, clock, title, description, status, priority) ==
    [id |-> NextRowid(tbl, sq), title |-> title, description |-> description,
     status |-> status, priority |-> priority,
     created_at |-> clock, updated_at |-> clock]

\* The rows the UPDATE's WHERE id = ? selects.
\* (UpdateWhereMissing: the UPDATE without its WHERE clause.)
UpdateWhereMissing(tbl, id) == tbl
UpdateWhere(tbl, id) == {r \in tbl : r.id = id}

\* UPDATE tasks SET ... (the SET list), applied to one selected row.
UpdateRow(r, clock, updates) ==
    [r EXCEPT !.title = COALESCE(Bind(updates.title), r.title),
              !.description = COALESCE(Bind(updates.description), r.description),
              !.status = COALESCE(Bind(updates.status), r.status),
              !.priority = COALESCE(Bind(updates.priority), r.priority),
              !.updated_at = clock]

\* DELETE FROM tasks WHERE id = ?
\* (DeleteRowsBelow: WHERE id <= ? in place of WHERE id = ?.)
DeleteRowsBelow(tbl, id) == {r \in tbl : r.id > id}
DeleteRows(tbl, id) == {r \in tbl : r.id # id}

\* SELECT * FROM tasks ORDER BY created_at DESC.  SQL leaves the order of
\* rows with equal sort keys open: every order sorted on created_at is a
\* possible result.
Orderings(tbl) ==
    {s \in [1..Cardinality(tbl) -> tbl] :
        \A i, j \in 1..Cardinality(tbl) : i # j => s[i] # s[j]}

OrderByCreatedAtDesc(tbl) ==
    {s \in Orderings(tbl) :
        \A i, j \in 1..Len(s) : i < j => s[i].created_at >= s[j].created_at}

(* ----------------------------- observers ------------------------------- *)

\* TaskLogger writes a console line and returns; a Throwing observer is an
\* implementation of TaskObserver whose callbacks throw.
FirstThrowing(obs) ==
    IF \E i \in DOMAIN obs : obs[i] = "Throwing"
    THEN CHOOSE i \in DOMAIN obs :
            obs[i] = "Throwing" /\ \A j \in 1..(i - 1) : obs[j] # "Throwing"
    ELSE 0

\* observers.forEach(observer => observer.onTaskX(payload)): the observers are
\* called in order; the first one that throws ends the loop, and the
\* exception leaves the notify call.
Notify(obs, event) ==
    LET ft == FirstThrowing(obs)
        n == IF ft = 0 THEN Len(obs) ELSE ft
    IN  [delivered |-> [i \in 1..n |-> [observer |-> i, event |-> event]],
         threw |-> ft # 0]

NoNotify == [delivered |-> <<>>, threw |-> FALSE]

(* ---------------------------- TaskService ------------------------------ *)

\* Each operation yields the table, sqlite_sequence, the value returned
\* (a list of at most one row, or a flag), the events delivered, and
\* whether an exception left the call.

CreateTask(tbl, sq, obs, clock, task) ==
    LET row == InsertRow(tbl, sq, clock, Bind(task.title),
                         Bind(OrEmpty(task.description)),
                         Bind(task.status), Bind(task.priority))
        tbl2 == tbl \cup {row}
        newTask == GetTaskById(tbl2, row.id)
        n == IF newTask # <<>>
             THEN Notify(obs, [kind |-> "created", id |-> row.id, task |-> newTask])
             ELSE NoNotify
    IN  IF Bind(task.title) = Null
        THEN \* title TEXT NOT NULL: the INSERT throws
             [tasks |-> tbl, seq |-> sq, ret |-> <<>>, delivered |-> <<>>,
              threw |-> TRUE]
        ELSE [tasks |-> tbl2, seq |-> row.id, ret |-> newTask,
              delivered |-> n.delivered, threw |-> n.threw]

UpdateTask(tbl, obs, clock, id, updates) ==
    LET hit == UpdateWhere(tbl, id)
        tbl2 == (tbl \ hit) \cup {UpdateRow(r, clock, updates) : r \in hit}
        changes == Cardinality(hit)
        updatedTask == GetTaskById(tbl2, id)
        n == IF changes > 0 /\ updatedTask # <<>>
             THEN Notify(obs, [kind |-> "updated", id |-> id, task |-> updatedTask])
             ELSE NoNotify
    IN  [tasks |-> tbl2, ret |-> IF changes > 0 THEN updatedTask ELSE <<>>,
         delivered |-> n.delivered, threw |-> n.threw]

\* (DeleteTaskAlwaysNotifies: deleteTask without its test of result.changes.)
DeleteTaskAlwaysNotifies(tbl, obs, id) ==
    LET tbl2 == DeleteRows(tbl, id)
        n == Notify(obs, [kind |-> "deleted", id |-> id, task |-> <<>>])
    IN  [tasks |-> tbl2, ret |-> TRUE,
         delivered |-> n.delivered, threw |-> n.threw]

DeleteTask(tbl, obs, id) ==
    LET tbl2 == DeleteRows(tbl, id)
        changes == Cardinality(tbl) - Cardinality(tbl2)
        n == IF changes > 0
             THEN Notify(obs, [kind |-> "deleted", id |-> id, task |-> <<>>])
             ELSE NoNotify
    IN  [tasks |-> tbl2, ret |-> changes > 0,
         delivered |-> n.delivered, threw |-> n.threw]

(* ------------------------------ the routes ----------------------------- *)

\* What res sends: the status and the JSON body (the rows; an error body is
\* left out), tagged with the request line it answers.
Response(r, status, body) ==
    [method |-> r.method, id |-> r.id, status |-> status, body |-> body]
NoResponse == Response(NoRequest, 0, <<>>)

\* A request arrives and is routed.  The model stops creating rows at MaxId.
Receive ==
    /\ req = NoRequest
    /\ \E r \in Requests :
          /\ (r.method = "POST" /\ r.body.title \notin {Undefined, Null, Str("")})
                => seq < MaxId
          /\ req' = r
    /\ resp' = NoResponse
    /\ notified' = <<>>
    /\ UNCHANGED <<tasks, seq, now, observers, issued, deleted>>

\* app.get('/api/tasks')
Get ==
    /\ req.method = "GET"
    /\ \E list \in OrderByCreatedAtDesc(tasks) : resp' = Response(req, 200, list)
    /\ req' = NoRequest
    /\ notified' = <<>>
    /\ UNCHANGED <<tasks, seq, now, observers, issued, deleted>>

\* app.post('/api/tasks')
Post ==
    LET title == req.body.title
        description == req.body.description
        status == Default(req.body.status, "pending")
        priority == Default(req.body.priority, "medium")
        r == CreateTask(tasks, seq, observers, now,
                        [title |-> title, description |-> description,
                         status |-> status, priority |-> priority])
    IN  /\ req.method = "POST"
        /\ IF ~Truthy(title)
           THEN /\ resp' = Response(req, 400, <<>>)
                /\ notified' = <<>>
                /\ UNCHANGED <<tasks, seq, issued>>
           ELSE /\ tasks' = r.tasks
                /\ seq' = r.seq
                /\ notified' = r.delivered
                /\ issued' = issued \cup (RowIds(r.tasks) \ RowIds(tasks))
                /\ resp' = IF r.threw THEN Response(req, 500, <<>>)
                                      ELSE Response(req, 201, r.ret)
        /\ req' = NoRequest
        /\ UNCHANGED <<now, observers, deleted>>

\* app.put('/api/tasks/:id')
Put ==
    LET id == req.id
        updates == req.body
        r == UpdateTask(tasks, observers, now, id, updates)
    IN  /\ req.method = "PUT"
        /\ tasks' = r.tasks
        /\ notified' = r.delivered
        /\ resp' = IF r.threw THEN Response(req, 500, <<>>)
                   ELSE IF r.ret # <<>> THEN Response(req, 200, r.ret)
                   ELSE Response(req, 404, <<>>)
        /\ req' = NoRequest
        /\ UNCHANGED <<seq, now, observers, issued, deleted>>

\* app.delete('/api/tasks/:id')
Delete ==
    LET id == req.id
        r == DeleteTask(tasks, observers, id)
    IN  /\ req.method = "DELETE"
        /\ tasks' = r.tasks
        /\ notified' = r.delivered
        /\ deleted' = deleted \cup (RowIds(tasks) \ RowIds(r.tasks))
        /\ resp' = IF r.threw THEN Response(req, 500, <<>>)
                   ELSE IF r.ret THEN Response(req, 204, <<>>)
                   ELSE Response(req, 404, <<>>)
        /\ req' = NoRequest
        /\ UNCHANGED <<seq, now, observers, issued>>

\* A second passes: CURRENT_TIMESTAMP moves on.
Tick ==
    /\ now < MaxClock
    /\ now' = now + 1
    /\ UNCHANGED <<tasks, seq, observers, req, resp, notified, issued, deleted>>

(* --------------------------- specifications ---------------------------- *)

\* An empty tasks.db, no request yet.  issued and deleted are history: the
\* rowids the store has handed out, and the ids whose row a DELETE removed.
InitStore ==
    /\ tasks = {}
    /\ seq = 0
    /\ now = 0
    /\ req = NoRequest
    /\ resp = NoResponse
    /\ notified = <<>>
    /\ issued = {}
    /\ deleted = {}

\* Nothing applied, nothing handed to any observer.
InitHistory ==
    /\ mutations = <<>>
    /\ received = [i \in DOMAIN observers |-> <<>>]

\* The service as constructed: the TaskLogger is the only observer.
Init ==
    /\ InitStore
    /\ observers = <<"TaskLogger">>
    /\ InitHistory

\* The server's steps, with no record kept of the run.
Next ==
    \/ Receive /\ UNCHANGED hist
    \/ Get /\ UNCHANGED hist
    \/ Post /\ UNCHANGED hist
    \/ Put /\ UNCHANGED hist
    \/ Delete /\ UNCHANGED hist
    \/ Tick /\ UNCHANGED hist

Spec == Init /\ [][Next]_vars

\* The service with a second observer registered through addObserver, one
\* whose callbacks throw, before or after the TaskLogger.
InitObs ==
    /\ InitStore
    /\ observers \in {<<"TaskLogger", "Throwing">>, <<"Throwing", "TaskLogger">>}
    /\ InitHistory

SpecObs == InitObs /\ [][Next]_vars

\* What a handler's step adds to the record.  A mutation is a change the
\* store applied: a row inserted, a row the UPDATE matched (it counts as
\* changed even when no value differs), a row removed.  An observer's log
\* grows by the events handed to it in the step, in the order of the calls.
AppliedMutation ==
    LET inserted == RowIds(tasks') \ RowIds(tasks)
        removed == RowIds(tasks) \ RowIds(tasks')
    IN  IF inserted # {}
        THEN <<[kind |-> "created", id |-> CHOOSE i \in inserted : TRUE]>>
        ELSE IF removed # {}
        THEN <<[kind |-> "deleted", id |-> CHOOSE i \in removed : TRUE]>>
        ELSE IF req.method = "PUT" /\ req.id \in RowIds(tasks)
        THEN <<[kind |-> "updated", id |-> req.id]>>
        ELSE <<>>

HandedTo(i, calls) ==
    LET mine == SelectSeq(calls, LAMBDA c : c.observer = i)
    IN  [k \in DOMAIN mine |-> mine[k].event]

Record ==
    /\ mutations' = mutations \o AppliedMutation
    /\ received' = [i \in DOMAIN received |-> received[i] \o HandedTo(i, notified')]

\* The requests of a recorded run: a list, a create with a title and one
\* without, an update and a delete for every id.
LogRequests ==
    {Request("GET", 0, EmptyBody),
     Request("POST", 0, EmptyBody),
     Request("POST", 0, [EmptyBody EXCEPT !.title = Str("A")])}
    \cup {Request("PUT", id, [EmptyBody EXCEPT !.status = Str("completed")]) :
             id \in IdParams}
    \cup {Request("DELETE", id, EmptyBody) : id \in IdParams}

\* The service with the TaskLogger alone, or with a second TaskLogger
\* registered through addObserver.
InitLog ==
    /\ InitStore
    /\ observers \in {<<"TaskLogger">>, <<"TaskLogger", "TaskLogger">>}
    /\ InitHistory

\* The server's steps with the record kept, up to MaxLog mutations.
NextLog ==
    \/ Receive /\ req' \in LogRequests /\ Len(mutations) < MaxLog /\ UNCHANGED hist
    \/ Get /\ Record
    \/ Post /\ Record
    \/ Put /\ Record
    \/ Delete /\ Record
    \/ Tick /\ UNCHANGED hist

SpecLog == InitLog /\ [][NextLog]_vars

(* ------------------------------- claims -------------------------------- *)

Fields == {"title", "description", "status", "priority"}

\* The step in which the handler of the pending request runs.
Handled(method) == req.method = method /\ req' = NoRequest

\* C1, as stated: a PUT for an existing id sets every field the body holds to
\* the value it holds, keeps every other field, id and created_at, moves
\* updated_at to a later value, and returns the row a read then finds.
C1_AsStated ==
    [][(Handled("PUT") /\ req.id \in RowIds(tasks)) =>
        \E old \in tasks, new \in tasks' :
            /\ old.id = req.id /\ new.id = req.id
            /\ \A f \in Fields :
                  new[f] = IF req.body[f] = Undefined THEN old[f] ELSE req.body[f]
            /\ new.created_at = old.created_at
            /\ new.updated_at > old.updated_at
            /\ resp' = Response(req, 200, <<new>>)
            /\ GetTaskById(tasks', req.id) = <<new>>]_vars

\* C1, amended: a PUT for an existing id sets every field the body holds a
\* string for to that string, keeps every field that is absent or null, keeps
\* id, created_at and every other row, sets updated_at to the current
\* timestamp, which is never earlier than before (and is the same when the
\* update falls in the second of the previous write), and returns the row a
\* read then finds.
C1_UpdateFrame ==
    [][(Handled("PUT") /\ req.id \in RowIds(tasks)) =>
        \E old \in tasks, new \in tasks' :
            /\ old.id = req.id /\ new.id = req.id
            /\ tasks' = (tasks \ {old}) \cup {new}
            /\ \A f \in Fields :
                  new[f] = IF req.body[f].t = "string" THEN req.body[f] ELSE old[f]
            /\ new.created_at = old.created_at
            /\ new.updated_at = now
            /\ new.updated_at >= old.updated_at
            /\ resp' = Response(req, 200, <<new>>)
            /\ GetTaskById(tasks', req.id) = <<new>>]_vars

\* A PUT answered 200 with a row whose status it set, in a later second than
\* the row's creation, the title left as created.
C1_Witness ==
    /\ resp.method = "PUT" /\ resp.status = 200
    /\ resp.body[1].status = Str("completed")
    /\ resp.body[1].title = Str("A")
    /\ resp.body[1].updated_at > resp.body[1].created_at
    /\ resp.body[1] \in tasks

\* C2: a PUT for an id that is not in the table is answered 404, changes no
\* row and notifies no observer.
C2_UpdateMissing ==
    [][(Handled("PUT") /\ req.id \notin RowIds(tasks)) =>
        /\ resp' = Response(req, 404, <<>>)
        /\ tasks' = tasks
        /\ notified' = <<>>]_vars

\* A PUT that sets a field was answered 404 for an id whose row was deleted,
\* with another row in the table.
C2_Witness ==
    /\ resp.method = "PUT" /\ resp.status = 404
    /\ resp.id \in deleted
    /\ tasks # {}

\* C3: a DELETE for an existing id removes that row and no other and is
\* answered 204; from then on the id is in no row and in no list; and a
\* DELETE for an id already deleted is answered 404 and changes nothing.
C3_DeletedStaysGone == RowIds(tasks) \cap deleted = {}
C3_ListsOmitDeleted ==
    (resp.method = "GET" /\ resp.status = 200) =>
        \A i \in DOMAIN resp.body : resp.body[i].id \notin deleted

C3_Delete ==
    /\ [](C3_DeletedStaysGone /\ C3_ListsOmitDeleted)
    /\ [][/\ (Handled("DELETE") /\ req.id \in RowIds(tasks)) =>
                /\ tasks' = {r \in tasks : r.id # req.id}
                /\ Cardinality(tasks') = Cardinality(tasks) - 1
                /\ req.id \in deleted'
                /\ resp' = Response(req, 204, <<>>)
          /\ (Handled("DELETE") /\ req.id \in deleted) =>
                /\ tasks' = tasks
                /\ resp' = Response(req, 404, <<>>)]_vars

\* A second DELETE of an id was answered 404 after a later create: the table
\* holds a row, and every rowid has been handed out.
C3_Witness ==
    /\ resp.method = "DELETE" /\ resp.status = 404
    /\ resp.id \in deleted
    /\ tasks # {}
    /\ seq = MaxId

\* C4: a list holds every row of the table, the later created before the
\* earlier created (rowids grow with creation), also for rows created in
\* the same second.
C4_NewestFirst ==
    (resp.method = "GET" /\ resp.status = 200) =>
        /\ {resp.body[i] : i \in DOMAIN resp.body} = tasks
        /\ Len(resp.body) = Cardinality(tasks)
        /\ \A i, j \in DOMAIN resp.body : i < j => resp.body[i].id > resp.body[j].id

\* C5: the id a create returns is none the store has handed out before,
\* deleted or not, and no two rows share an id.
C5_UniqueIds == \A r1, r2 \in tasks : r1.id = r2.id => r1 = r2

C5_IdsNeverReused ==
    /\ []C5_UniqueIds
    /\ [][(Handled("POST") /\ resp'.status = 201) =>
            /\ resp'.body[1].id \notin issued
            /\ resp'.body[1].id \in issued']_vars

\* A create was answered 201 after some row had been deleted.
C5_Witness ==
    /\ resp.method = "POST" /\ resp.status = 201
    /\ deleted # {}
    /\ resp.body[1].id \notin deleted

\* C6: a POST whose title is absent, null or '' is answered 400, changes no
\* row, hands out no id and notifies no observer.
C6_TitleRequired ==
    [][(Handled("POST") /\ req.body.title \in {Undefined, Null, Str("")}) =>
        /\ resp' = Response(req, 400, <<>>)
        /\ tasks' = tasks
        /\ seq' = seq
        /\ notified' = <<>>]_vars

\* A POST was answered 400 with a row in the table.
C6_Witness ==
    /\ resp.method = "POST" /\ resp.status = 400
    /\ tasks # {}

\* C7: a POST whose body holds a title and nothing else is answered 201 with
\* the stored row: status 'pending', priority 'medium', description '', a
\* positive id, and created_at and updated_at both the current timestamp.
C7_Defaults ==
    [][(/\ Handled("POST")
        /\ req.body.title \notin {Undefined, Null, Str("")}
        /\ \A f \in Fields \ {"title"} : req.body[f] = Undefined) =>
        /\ resp'.status = 201
        /\ Len(resp'.body) = 1
        /\ resp'.body[1] \in tasks'
        /\ resp'.body[1].title = req.body.title
        /\ resp'.body[1].status = Str("pending")
        /\ resp'.body[1].priority = Str("medium")
        /\ resp'.body[1].description = Str("")
        /\ resp'.body[1].id > 0
        /\ resp'.body[1].created_at = now
        /\ resp'.body[1].updated_at = resp'.body[1].created_at]_vars

\* A POST was answered 201 with a row holding the defaults.
C7_Witness ==
    /\ resp.method = "POST" /\ resp.status = 201
    /\ resp.body[1].status = Str("pending")
    /\ resp.body[1].priority = Str("medium")
    /\ resp.body[1].description = Str("")
    /\ resp.body[1].created_at = resp.body[1].updated_at

\* C8: every stored task has a status among pending, in-progress, completed
\* and a priority among low, medium, high.
C8_EnumeratedValues ==
    \A r \in tasks :
        /\ r.status \in {Str(x) : x \in Statuses}
        /\ r.priority \in {Str(x) : x \in Priorities}

\* C9: every stored task has a title that is a non-empty string.
C9_TitleNonEmpty ==
    \A r \in tasks : r.title.t = "string" /\ r.title.v # ""

\* C10: when an observer throws while it is notified, the mutation stays (the
\* created or updated row is in the table, the deleted id is not) and the
\* request is answered with its success status, 201, 200 or 204.
C10_ObserverFailureIgnored ==
    [][(/\ req # NoRequest /\ req' = NoRequest
        /\ \E i \in DOMAIN notified' : observers[notified'[i].observer] = "Throwing") =>
        /\ \A i \in DOMAIN notified' :
              LET e == notified'[i].event
              IN  IF e.kind = "deleted" THEN e.id \notin RowIds(tasks')
                  ELSE e.task[1] \in tasks'
        /\ resp'.status = CASE req.method = "POST" -> 201
                            [] req.method = "PUT" -> 200
                            [] OTHER -> 204]_vars

\* C11: each registered observer is handed exactly one event for every
\* mutation the store applied and none for anything else, of the mutation's
\* kind and id, in the order of the mutations; the event is handed over with
\* the change already in the store (created: the stored row; updated: the
\* row as re-read; deleted: the id alone, its row gone); a request that
\* changes no row (a PUT or DELETE for a missing id, a POST without a title,
\* a GET) hands over no event.
C11_LogMatchesMutations ==
    \A i \in DOMAIN observers :
        /\ Len(received[i]) = Len(mutations)
        /\ \A k \in DOMAIN mutations :
              /\ received[i][k].kind = mutations[k].kind
              /\ received[i][k].id = mutations[k].id

C11_EventPayload(e) ==
    CASE e.kind = "created" ->
            /\ e.id \notin RowIds(tasks)
            /\ Len(e.task) = 1 /\ e.task[1] \in tasks' /\ e.task[1].id = e.id
      [] e.kind = "updated" ->
            /\ e.id \in RowIds(tasks)
            /\ Len(e.task) = 1 /\ e.task[1] \in tasks' /\ e.task[1].id = e.id
            /\ e.task[1].updated_at = now
      [] e.kind = "deleted" ->
            /\ e.id \in RowIds(tasks)
            /\ e.id \notin RowIds(tasks')
            /\ e.task = <<>>
      [] OTHER -> FALSE

C11_Events ==
    /\ []C11_LogMatchesMutations
    /\ [][(req # NoRequest /\ req' = NoRequest) =>
            /\ \A c \in DOMAIN notified' : C11_EventPayload(notified'[c].event)
            /\ Len(notified') = IF mutations' = mutations THEN 0 ELSE Len(observers)
            /\ (\/ req.method = "GET"
                \/ req.method = "POST" /\ req.body.title \in {Undefined, Null, Str("")}
                \/ req.method \in {"PUT", "DELETE"} /\ req.id \notin RowIds(tasks))
                  => (notified' = <<>> /\ tasks' = tasks /\ mutations' = mutations)]_vars

\* Two observers have each been handed a created, an updated and a deleted
\* event, in that order, and a DELETE for the id now gone was answered 404
\* and handed over nothing.
C11_Witness ==
    /\ Len(observers) = 2
    /\ Len(mutations) = 3
    /\ <<received[2][1].kind, received[2][2].kind, received[2][3].kind>>
          = <<"created", "updated", "deleted">>
    /\ received[1] = received[2]
    /\ resp.method = "DELETE" /\ resp.status = 404
    /\ notified = <<>>

====
